---------------------------- MODULE Spec2Model ----------------------------
(***************************************************************************)
(* Model of the derive_fromstr attribute macro (src/src/lib.rs) and of the *)
(* FromStr implementation it generates.                                    *)
(*                                                                         *)
(* A string is a sequence of characters.  A character is one of            *)
(*   "a"   lowercase ASCII letter           (1 byte in UTF-8)              *)
(*   "A"   its uppercase form               (1 byte)                       *)
(*   "ee"  U+00E9, a lowercase letter that is legal in an identifier and    *)
(*         takes 2 bytes in UTF-8                                          *)
(*   " "   whitespace                       (1 byte)                       *)
(***************************************************************************)
EXTENDS Integers, Sequences, FiniteSets

VARIABLES
    pc,              \* position in derive_fromstr / in the generated code
    args,            \* attr parsed as AttributeArgs (line 9)
    has_trim,        \* line 10
    has_lowercase,   \* line 17
    truncate_value,  \* line 25: None or Some(n)
    variants,        \* input.variants (line 40): <<[ident, unit]>>
    arms_vec,        \* line 55: <<[pattern, variant]>>
    transform,       \* line 90: which normalisation the generated code runs
    outcome,         \* "running", "emitted", "compile_error" or "panic"
    diag,            \* the variant a compile error is spanned at, or NoVariant
    raw,             \* the argument a caller passed to from_str
    s,               \* the binding named s at the match of from_str (line 126)
    result           \* what from_str returned

vars == <<pc, args, has_trim, has_lowercase, truncate_value, variants, arms_vec,
          transform, outcome, diag, raw, s, result>>

-----------------------------------------------------------------------------
(* Bounds of the model                                                     *)

\* directives in one attribute
MaxArgs == 3
\* largest N of a truncate(N) whose literal fits usize
MaxTrunc == 2
\* characters of all variant identifiers of one enum, taken together
MaxSchemaChars == 3
\* characters of a string passed to from_str
MaxRawLen == 3

-----------------------------------------------------------------------------
(* Strings                                                                 *)

IdChars == {"a", "A", "ee"}
RawChars == {"a", "A", " "}

StringsOver(chars, lo, hi) == UNION {[1..n -> chars] : n \in lo..hi}

\* char::is_whitespace, as str::trim uses it
is_whitespace(c) == c = " "

\* char::len_utf8
len_utf8(c) == IF c = "ee" THEN 2 ELSE 1

\* char::to_lowercase
char_to_lowercase(c) == IF c = "A" THEN "a" ELSE c

\* str::to_lowercase
to_lowercase(str) == [i \in 1..Len(str) |-> char_to_lowercase(str[i])]

\* str::trim: drops leading and trailing whitespace
trim(str) ==
    LET keep == {i \in 1..Len(str) : ~is_whitespace(str[i])}
        first == CHOOSE i \in keep : \A j \in keep : i <= j
        last == CHOOSE i \in keep : \A j \in keep : j <= i
    IN  IF keep = {} THEN <<>> ELSE SubSeq(str, first, last)

\* str::len: the length in BYTES
RECURSIVE len(_)
len(str) == IF str = <<>> THEN 0 ELSE len_utf8(Head(str)) + len(Tail(str))

\* str::is_char_boundary(n), for n <= len(str)
is_char_boundary(str, n) == \E k \in 0..Len(str) : len(SubSeq(str, 1, k)) = n

\* &str[..n]: the first n BYTES; panics unless n is a char boundary
slice_to(str, n) ==
    IF is_char_boundary(str, n)
    THEN [panic |-> FALSE,
          value |-> SubSeq(str, 1, CHOOSE k \in 0..Len(str) : len(SubSeq(str, 1, k)) = n)]
    ELSE [panic |-> TRUE, value |-> <<>>]

-----------------------------------------------------------------------------
(* Option<usize>                                                           *)

None == [some |-> FALSE]
Some(n) == [some |-> TRUE, value |-> n]

NoVariant == <<>>
NoResult == [ok |-> FALSE, none |-> TRUE]
Ok(v) == [ok |-> TRUE, variant |-> v]
Err(str) == [ok |-> FALSE, UnknownVariant |-> str]

-----------------------------------------------------------------------------
(* Attribute arguments (syn::NestedMeta)                                   *)

\* Lit::Int whose digits fit usize, Lit::Int whose digits do not, Lit::Str
IntLit(n) == [lit |-> "Int", fits |-> TRUE, value |-> n]
HugeIntLit == [lit |-> "Int", fits |-> FALSE, value |-> 0]
StrLit == [lit |-> "Str", fits |-> FALSE, value |-> 0]

\* NestedMeta::Meta(Meta::Path(..)) and NestedMeta::Meta(Meta::List(..))
MetaPath(id) == [meta |-> "Path", ident |-> id, nested |-> <<>>]
MetaList(id, nested) == [meta |-> "List", ident |-> id, nested |-> nested]

Directives ==
    {MetaPath(id) : id \in {"trim", "lowercase", "truncate", "other"}}
      \cup {MetaList("truncate", <<IntLit(n)>>) : n \in 0..MaxTrunc}
      \cup {MetaList("truncate", <<>>),
            MetaList("truncate", <<StrLit>>),
            MetaList("truncate", <<HugeIntLit>>),
            MetaList("other", <<IntLit(1)>>)}

ArgLists == StringsOver(Directives, 0, MaxArgs)

\* lines 10-16 and 17-23: args.iter().any(|arg| Path(path) && path.is_ident(name))
any_path_is_ident(list, name) ==
    \E i \in 1..Len(list) : list[i].meta = "Path" /\ list[i].ident = name

\* lines 26-34: the closure given to find_map.  "skip" is the closure's None,
\* "panic" is the unwrap of a failed base10_parse::<usize>().
truncate_closure(arg) ==
    IF arg.meta = "List" /\ arg.ident = "truncate" /\ Len(arg.nested) = 1
       /\ arg.nested[1].lit = "Int"
    THEN IF arg.nested[1].fits
         THEN [kind |-> "some", value |-> arg.nested[1].value]
         ELSE [kind |-> "panic", value |-> 0]
    ELSE [kind |-> "skip", value |-> 0]

\* find_map as it would be over args.iter().rev(): the last match decides
RECURSIVE find_map_last(_)
find_map_last(list) ==
    IF list = <<>> THEN [kind |-> "skip", value |-> 0]
    ELSE LET r == truncate_closure(list[Len(list)])
         IN  IF r.kind = "skip" THEN find_map_last(SubSeq(list, 1, Len(list) - 1)) ELSE r

\* line 25: Iterator::find_map over the results of the closure, taken one
\* argument at a time from the front; the arguments after the first one that is
\* not skipped are never visited
RECURSIVE find_map(_)
find_map(list) ==
    IF list = <<>> THEN [kind |-> "skip", value |-> 0]
    ELSE LET r == truncate_closure(Head(list))
         IN  IF r.kind = "skip" THEN find_map(Tail(list)) ELSE r

-----------------------------------------------------------------------------
(* Match arms                                                              *)

Arm(pattern, var_ident) == [pattern |-> pattern, variant |-> var_ident]

\* line 60 as it would be with the flag dropped: the pattern is the identifier
expected_never_lowercase(lowercase, var_name) == var_name

\* line 60 as it would be with the test dropped: the pattern is always lowercased
expected_always_lowercase(lowercase, var_name) == to_lowercase(var_name)

\* line 60 (and line 79, the same expression)
expected(lowercase, var_name) ==
    IF lowercase THEN to_lowercase(var_name) ELSE var_name

\* lines 55-65: one arm per variant, in declaration order
primary_arms(vs, lowercase) ==
    [i \in 1..Len(vs) |-> Arm(expected(lowercase, vs[i].ident), vs[i].ident)]

\* line 81 as it would be with arms_vec.insert(0, ..): aliases before primaries
push_front(arms, arm) == <<arm>> \o arms

\* line 81: arms_vec.push(..)
push(arms, arm) == Append(arms, arm)

\* lines 69-86: the loop over the variants, started with the primary arms
RECURSIVE truncate_arms(_, _, _, _)
truncate_arms(arms, vs, trunc, lowercase) ==
    IF vs = <<>> THEN [panic |-> FALSE, arms |-> arms]
    ELSE LET full_name == Head(vs).ident
             cut == slice_to(full_name, trunc)
             truncated == IF lowercase THEN to_lowercase(cut.value) ELSE cut.value
             original == expected(lowercase, full_name)
         IN  IF len(full_name) > trunc
             THEN IF cut.panic THEN [panic |-> TRUE, arms |-> arms]
                  ELSE IF truncated # original
                       THEN truncate_arms(push(arms, Arm(truncated, full_name)),
                                          Tail(vs), trunc, lowercase)
                       ELSE truncate_arms(arms, Tail(vs), trunc, lowercase)
             ELSE truncate_arms(arms, Tail(vs), trunc, lowercase)

\* lines 90-106 as they would be with the trim left out of the first branch
transform_only_lowercase_when_both(trim_flag, lowercase) ==
    IF lowercase THEN "lowercase"
    ELSE IF trim_flag THEN "trim"
    ELSE "identity"

\* lines 90-106
transform_for(trim_flag, lowercase) ==
    IF trim_flag /\ lowercase THEN "trim_lowercase"
    ELSE IF trim_flag THEN "trim"
    ELSE IF lowercase THEN "lowercase"
    ELSE "identity"

\* line 125: the statements spliced in as #transform rebind s
apply_transform(t, str) ==
    IF t = "trim_lowercase" THEN to_lowercase(trim(str))
    ELSE IF t = "trim" THEN trim(str)
    ELSE IF t = "lowercase" THEN to_lowercase(str)
    ELSE str

\* lines 126-129: the arms are tried in order; the wildcard arm builds the error
\* from the binding named s that is in scope at the match
match_arms(arms, str) ==
    LET hits == {i \in 1..Len(arms) : arms[i].pattern = str}
    IN  IF hits = {} THEN Err(str)
        ELSE Ok(arms[CHOOSE i \in hits : \A j \in hits : i <= j].variant)

\* lines 124-130
from_str(t, arms, str) == match_arms(arms, apply_transform(t, str))

-----------------------------------------------------------------------------
(* Inputs                                                                  *)

\* variant lists whose identifiers have at most budget characters together
RECURSIVE VariantLists(_)
VariantLists(budget) ==
    {<<>>} \cup
    UNION {{<<[ident |-> name, unit |-> u]>> \o rest :
               name \in StringsOver(IdChars, n, n), u \in BOOLEAN,
               rest \in VariantLists(budget - n)} : n \in 1..budget}

\* an enum's variants: distinct identifiers, each a unit variant or one with data
Schemas ==
    {vs \in VariantLists(MaxSchemaChars) :
        /\ vs # <<>>
        /\ \A i, j \in 1..Len(vs) : vs[i].ident = vs[j].ident => i = j}

\* the strings a caller passes to from_str
RawInputs(vs) ==
    StringsOver(RawChars, 0, MaxRawLen)
      \cup {vs[i].ident : i \in 1..Len(vs)}
      \cup {to_lowercase(vs[i].ident) : i \in 1..Len(vs)}

-----------------------------------------------------------------------------
(* The macro, in source order                                              *)

Init ==
    /\ pc = "args"
    /\ args \in ArgLists
    /\ has_trim = FALSE
    /\ has_lowercase = FALSE
    /\ truncate_value = None
    /\ variants = <<>>
    /\ arms_vec = <<>>
    /\ transform = "unset"
    /\ outcome = "running"
    /\ diag = NoVariant
    /\ raw = <<>>
    /\ s = <<>>
    /\ result = NoResult

\* lines 10-35, the literal fits or there is none
ParseArgs ==
    /\ pc = "args"
    /\ find_map(args).kind # "panic"
    /\ has_trim' = any_path_is_ident(args, "trim")
    /\ has_lowercase' = any_path_is_ident(args, "lowercase")
    /\ truncate_value' = IF find_map(args).kind = "some"
                         THEN Some(find_map(args).value) ELSE None
    /\ pc' = "item"
    /\ UNCHANGED <<args, variants, arms_vec, transform, outcome, diag, raw, s, result>>

\* line 30: unwrap() of the Err that base10_parse::<usize>() returned
ParseArgsPanic ==
    /\ pc = "args"
    /\ find_map(args).kind = "panic"
    /\ has_trim' = any_path_is_ident(args, "trim")
    /\ has_lowercase' = any_path_is_ident(args, "lowercase")
    /\ outcome' = "panic"
    /\ pc' = "aborted"
    /\ UNCHANGED <<args, truncate_value, variants, arms_vec, transform, diag, raw, s, result>>

\* lines 38-40: the item is read; args is not used from here on
ParseItem ==
    /\ pc = "item"
    /\ variants' \in Schemas
    /\ args' = <<>>
    /\ pc' = "check"
    /\ UNCHANGED <<has_trim, has_lowercase, truncate_value, arms_vec, transform,
                   outcome, diag, raw, s, result>>

\* lines 43-52, a variant with fields: the first one is reported
CheckVariantsError ==
    /\ pc = "check"
    /\ \E i \in 1..Len(variants) :
          /\ ~variants[i].unit
          /\ \A j \in 1..(i - 1) : variants[j].unit
          /\ diag' = variants[i].ident
    /\ outcome' = "compile_error"
    /\ pc' = "aborted"
    /\ UNCHANGED <<args, has_trim, has_lowercase, truncate_value, variants, arms_vec,
                   transform, raw, s, result>>

\* lines 43-52, every variant is a unit variant
CheckVariantsOk ==
    /\ pc = "check"
    /\ \A i \in 1..Len(variants) : variants[i].unit
    /\ pc' = "arms"
    /\ UNCHANGED <<args, has_trim, has_lowercase, truncate_value, variants, arms_vec,
                   transform, outcome, diag, raw, s, result>>

\* lines 55-65
BuildArms ==
    /\ pc = "arms"
    /\ arms_vec' = primary_arms(variants, has_lowercase)
    /\ pc' = "truncate"
    /\ UNCHANGED <<args, has_trim, has_lowercase, truncate_value, variants,
                   transform, outcome, diag, raw, s, result>>

\* line 68, truncate_value is None
TruncateNone ==
    /\ pc = "truncate"
    /\ ~truncate_value.some
    /\ pc' = "transform"
    /\ UNCHANGED <<args, has_trim, has_lowercase, truncate_value, variants, arms_vec,
                   transform, outcome, diag, raw, s, result>>

\* lines 68-87, every slice is taken at a char boundary
TruncateSome ==
    /\ pc = "truncate"
    /\ truncate_value.some
    /\ LET r == truncate_arms(arms_vec, variants, truncate_value.value, has_lowercase)
       IN  /\ ~r.panic
           /\ arms_vec' = r.arms
    /\ pc' = "transform"
    /\ UNCHANGED <<args, has_trim, has_lowercase, truncate_value, variants,
                   transform, outcome, diag, raw, s, result>>

\* line 73: the slice index is inside a character
TruncatePanic ==
    /\ pc = "truncate"
    /\ truncate_value.some
    /\ LET r == truncate_arms(arms_vec, variants, truncate_value.value, has_lowercase)
       IN  /\ r.panic
           /\ arms_vec' = r.arms
    /\ outcome' = "panic"
    /\ pc' = "aborted"
    /\ UNCHANGED <<args, has_trim, has_lowercase, truncate_value, variants,
                   transform, diag, raw, s, result>>

\* lines 89-106
BuildTransform ==
    /\ pc = "transform"
    /\ transform' = transform_for(has_trim, has_lowercase)
    /\ pc' = "emit"
    /\ UNCHANGED <<args, has_trim, has_lowercase, truncate_value, variants, arms_vec,
                   outcome, diag, raw, s, result>>

\* lines 108-144: the enum, the error enum and the impls leave as one token stream
Emit ==
    /\ pc = "emit"
    /\ outcome' = "emitted"
    /\ pc' = "generated"
    /\ UNCHANGED <<args, has_trim, has_lowercase, truncate_value, variants, arms_vec,
                   transform, diag, raw, s, result>>

-----------------------------------------------------------------------------
(* The generated code                                                      *)

\* lines 124-130: a call of from_str
FromStr ==
    /\ pc = "generated"
    /\ \E input \in RawInputs(variants) :
          /\ raw' = input
          /\ s' = apply_transform(transform, input)
          /\ result' = from_str(transform, arms_vec, input)
    /\ pc' = "returned"
    /\ UNCHANGED <<args, has_trim, has_lowercase, truncate_value, variants, arms_vec,
                   transform, outcome, diag>>

\* the caller has the result; the impl is ready for the next call
Return ==
    /\ pc = "returned"
    /\ raw' = <<>>
    /\ s' = <<>>
    /\ result' = NoResult
    /\ pc' = "generated"
    /\ UNCHANGED <<args, has_trim, has_lowercase, truncate_value, variants, arms_vec,
                   transform, outcome, diag>>

Next ==
    \/ ParseArgs
    \/ ParseArgsPanic
    \/ ParseItem
    \/ CheckVariantsError
    \/ CheckVariantsOk
    \/ BuildArms
    \/ TruncateNone
    \/ TruncateSome
    \/ TruncatePanic
    \/ BuildTransform
    \/ Emit
    \/ FromStr
    \/ Return

Spec == Init /\ [][Next]_vars

-----------------------------------------------------------------------------
(* Vocabulary of the properties                                            *)

Range(seq) == {seq[i] : i \in 1..Len(seq)}

Idents == {variants[i].ident : i \in 1..Len(variants)}

\* a variant's name normalized per Config: lowercased iff lowercase is set
NormalizedName(name) ==
    [i \in 1..Len(name) |->
        IF has_lowercase /\ name[i] = "A" THEN "a" ELSE name[i]]

\* the first n codepoints of a name (all of it when it has no more than n)
FirstCodepoints(name, n) == [i \in 1..(IF Len(name) < n THEN Len(name) ELSE n) |-> name[i]]

\* leading and trailing whitespace removed, one character at a time
RECURSIVE StripLeft(_)
StripLeft(str) ==
    IF str # <<>> /\ Head(str) = " " THEN StripLeft(Tail(str)) ELSE str

RECURSIVE StripRight(_)
StripRight(str) ==
    IF str # <<>> /\ str[Len(str)] = " "
    THEN StripRight(SubSeq(str, 1, Len(str) - 1)) ELSE str

\* the lookup key Config prescribes for an input: trim first, then lowercase
LookupKey(str) ==
    LET t == IF has_trim THEN StripRight(StripLeft(str)) ELSE str
    IN  [i \in 1..Len(t) |-> IF has_lowercase /\ t[i] = "A" THEN "a" ELSE t[i]]

\* str is name in some casing
IsCasingOf(str, name) ==
    /\ Len(str) = Len(name)
    /\ \A i \in 1..Len(name) :
          \/ str[i] = name[i]
          \/ {str[i], name[i]} = {"a", "A"}

\* str is name in some casing, between runs of whitespace
IsPaddedCasingOf(str, name) ==
    \E i, j \in 0..Len(str) :
        /\ i + Len(name) + j = Len(str)
        /\ \A k \in 1..i : str[k] = " "
        /\ \A k \in (Len(str) - j + 1)..Len(str) : str[k] = " "
        /\ IsCasingOf(SubSeq(str, i + 1, i + Len(name)), name)

NoOptions == ~has_trim /\ ~has_lowercase /\ ~truncate_value.some

\* derive_fromstr has ended, one way or another, after reading the enum
GenerationEnded == pc \in {"aborted", "generated", "returned"} /\ variants # <<>>

-----------------------------------------------------------------------------
(* C1: whenever from_str fails, the error is UnknownVariant(raw) with raw   *)
(* the caller's string exactly as supplied, under every Config.            *)
C1_ErrorCarriesOriginalInput ==
    (pc = "returned" /\ ~result.ok) => result = Err(raw)

-----------------------------------------------------------------------------
(* C2, as stated: parsing the normalized name of a variant V returns Ok(V), *)
(* for every schema of unique identifiers and every Config.                *)
C2_RoundTripEveryVariant ==
    \A v \in Idents :
        (pc = "returned" /\ raw = NormalizedName(v)) => result = Ok(v)

(* C2, amended: parsing the normalized name of a variant V returns Ok(W),   *)
(* W the first variant in schema order whose normalized name equals that of *)
(* V; W is V itself whenever no earlier variant has the same normalized     *)
(* name, which is always so when lowercase is not set.                      *)
C2_RoundTripFirstOfSameName ==
    \A i \in 1..Len(variants) :
        (pc = "returned" /\ raw = NormalizedName(variants[i].ident)) =>
            /\ \E k \in 1..i :
                  /\ NormalizedName(variants[k].ident) = raw
                  /\ \A j \in 1..(k - 1) : NormalizedName(variants[j].ident) # raw
                  /\ result = Ok(variants[k].ident)
            /\ (\A j \in 1..(i - 1) : NormalizedName(variants[j].ident) # raw)
                  => result = Ok(variants[i].ident)
            /\ ~has_lowercase => result = Ok(variants[i].ident)

\* the second of two variants was parsed from its lowercased name, with aliases on
C2_Witness ==
    /\ pc = "returned"
    /\ has_lowercase
    /\ truncate_value.some
    /\ Len(variants) > 1
    /\ raw = NormalizedName(variants[2].ident)
    /\ raw # variants[2].ident
    /\ result = Ok(variants[2].ident)

-----------------------------------------------------------------------------
(* C3: with no options, from_str(raw) is Ok(V) exactly when raw is the      *)
(* identifier of V, and UnknownVariant(raw), raw unchanged, otherwise.      *)
C3_NoOptionsExactMatch ==
    (pc = "returned" /\ NoOptions) =>
        /\ raw \in Idents => result = Ok(raw)
        /\ raw \notin Idents => result = Err(raw)
        /\ \A v \in Idents : result = Ok(v) <=> raw = v

\* with no options an input differing from an identifier only in case was rejected
C3_Witness ==
    /\ pc = "returned"
    /\ NoOptions
    /\ raw \notin Idents
    /\ \E v \in Idents : IsCasingOf(raw, v)
    /\ result = Err(raw)

-----------------------------------------------------------------------------
(* C4: the key looked up is raw, trimmed iff trim, lowercased iff           *)
(* lowercase, trim first; so with lowercase every casing of a name, and     *)
(* with trim too every whitespace-padded casing, has the key of the         *)
(* lowercased name.                                                         *)
C4_LookupKeyIsTrimThenLowercase ==
    pc = "returned" =>
        /\ s = LookupKey(raw)
        /\ result.ok <=> \E k \in 1..Len(arms_vec) : arms_vec[k].pattern = LookupKey(raw)
        /\ \A v \in Idents :
              /\ (has_lowercase /\ IsCasingOf(raw, v)) => s = NormalizedName(v)
              /\ (has_lowercase /\ has_trim /\ IsPaddedCasingOf(raw, v))
                    => s = NormalizedName(v)

\* an uppercase name padded on both sides was parsed under trim and lowercase
C4_Witness ==
    /\ pc = "returned"
    /\ has_trim
    /\ has_lowercase
    /\ raw = <<" ", "A", " ">>
    /\ result.ok

-----------------------------------------------------------------------------
(* C5: the finished table is the primary entries in schema order, followed, *)
(* when truncate = Some(N), by one alias per variant in schema order for    *)
(* exactly the variants whose first N codepoints, normalized, differ from   *)
(* the full pattern; names of N or fewer characters give no alias.         *)
C5_PrimaryEntries ==
    [i \in 1..Len(variants) |->
        Arm(NormalizedName(variants[i].ident), variants[i].ident)]

C5_HasAlias(v) ==
    /\ truncate_value.some
    /\ NormalizedName(FirstCodepoints(v.ident, truncate_value.value))
          # NormalizedName(v.ident)

C5_AliasOf(v) ==
    Arm(NormalizedName(FirstCodepoints(v.ident, truncate_value.value)), v.ident)

C5_AliasEntries ==
    LET with == SelectSeq(variants, C5_HasAlias)
    IN  [i \in 1..Len(with) |-> C5_AliasOf(with[i])]

C5_TableIsPrimaryThenAliases ==
    pc \in {"transform", "emit", "generated", "returned"} =>
        arms_vec = C5_PrimaryEntries \o C5_AliasEntries

-----------------------------------------------------------------------------
(* C6: from_str returns the variant of the first entry whose pattern equals *)
(* the normalized input, and an input that is the full pattern of a variant *)
(* yields a variant with that full pattern even if it is also the alias of  *)
(* another variant.                                                         *)
C6_FirstEntryWinsFullNameFirst ==
    pc = "returned" =>
        /\ result.ok =>
              \E k \in 1..Len(arms_vec) :
                  /\ arms_vec[k] = Arm(s, result.variant)
                  /\ \A j \in 1..(k - 1) : arms_vec[j].pattern # s
        /\ (\E k \in 1..Len(arms_vec) : arms_vec[k].pattern = s) => result.ok
        /\ \A v \in Idents :
              NormalizedName(v) = s =>
                  /\ result.ok
                  /\ NormalizedName(result.variant) = s

\* the input was the full name of one variant and the alias of another
C6_Witness ==
    /\ pc = "returned"
    /\ result.ok
    /\ NormalizedName(result.variant) = s
    /\ \E k \in (Len(variants) + 1)..Len(arms_vec) :
          /\ arms_vec[k].pattern = s
          /\ arms_vec[k].variant # result.variant

-----------------------------------------------------------------------------
(* C7: once generation has ended, a schema with a data-carrying variant     *)
(* gave only a diagnostic at the first such variant, and a schema of unit   *)
(* variants gave all the artifacts.                                         *)
C7_AllOrNothing ==
    GenerationEnded =>
        IF \E i \in 1..Len(variants) : ~variants[i].unit
        THEN /\ outcome = "compile_error"
             /\ \E i \in 1..Len(variants) :
                   /\ ~variants[i].unit
                   /\ \A j \in 1..(i - 1) : variants[j].unit
                   /\ diag = variants[i].ident
        ELSE outcome = "emitted"

-----------------------------------------------------------------------------
(* C8: a truncate directive that is not truncate(N) with N a representable  *)
(* integer literal ends generation in a diagnostic: generation neither      *)
(* goes on without it nor panics.                                           *)
C8_MalformedTruncate(arg) ==
    /\ arg.ident = "truncate"
    /\ ~(/\ arg.meta = "List"
         /\ Len(arg.nested) = 1
         /\ arg.nested[1].lit = "Int"
         /\ arg.nested[1].fits)

C8_MalformedTruncateIsDiagnosed ==
    (pc # "args" /\ \E i \in 1..Len(args) : C8_MalformedTruncate(args[i]))
        => outcome = "compile_error"

-----------------------------------------------------------------------------
(* C9: the Config depends only on the set of recognized directives.         *)

C9_Recognized(arg) ==
    \/ arg = MetaPath("trim")
    \/ arg = MetaPath("lowercase")
    \/ \E n \in 0..MaxTrunc : arg = MetaList("truncate", <<IntLit(n)>>)

C9_Unrecognized(arg) == arg.ident = "other"

\* nothing but recognized and unrecognized directives: no malformed truncate
C9_Plain(list) ==
    \A i \in 1..Len(list) : C9_Recognized(list[i]) \/ C9_Unrecognized(list[i])

C9_RemoveAt(list, i) == SubSeq(list, 1, i - 1) \o SubSeq(list, i + 1, Len(list))

C9_InsertAt(list, i, arg) == SubSeq(list, 1, i) \o <<arg>> \o SubSeq(list, i + 1, Len(list))

RECURSIVE C9_Permutations(_)
C9_Permutations(list) ==
    IF list = <<>> THEN {<<>>}
    ELSE UNION {{<<list[i]>> \o rest : rest \in C9_Permutations(C9_RemoveAt(list, i))} :
                   i \in 1..Len(list)}

\* the lists one step away: a permutation, a directive repeated anywhere, an
\* unrecognized directive inserted anywhere
C9_Rearrangements(list) ==
    C9_Permutations(list)
      \cup {C9_InsertAt(list, i, list[j]) : i \in 0..Len(list), j \in 1..Len(list)}
      \cup {C9_InsertAt(list, i, arg) :
               i \in 0..Len(list), arg \in {d \in Directives : C9_Unrecognized(d)}}

\* what lines 10-35 make of a list
C9_Parsed(list) ==
    [trim |-> any_path_is_ident(list, "trim"),
     lowercase |-> any_path_is_ident(list, "lowercase"),
     truncate |-> IF find_map(list).kind = "some"
                  THEN Some(find_map(list).value) ELSE None,
     panic |-> find_map(list).kind = "panic"]

\* what lines 10-35 made of args
C9_Current ==
    [trim |-> has_trim, lowercase |-> has_lowercase, truncate |-> truncate_value,
     panic |-> outcome = "panic"]

C9_ArgsDone == pc = "item" \/ (pc = "aborted" /\ variants = <<>>)

\* the first truncate directive carrying exactly one integer literal, if any
C9_FirstIntTruncate(list) ==
    LET at == {i \in 1..Len(list) :
                  /\ list[i].meta = "List"
                  /\ list[i].ident = "truncate"
                  /\ Len(list[i].nested) = 1
                  /\ list[i].nested[1].lit = "Int"}
    IN  IF at = {} THEN <<>>
        ELSE <<list[CHOOSE i \in at : \A j \in at : i <= j]>>

(* C9, as stated: for a list of recognized and unrecognized directives,     *)
(* every permutation, repetition and insertion of unrecognized directives   *)
(* gives the same Config, and no error.                                     *)
C9_ConfigDependsOnlyOnSet ==
    (C9_ArgsDone /\ C9_Plain(args)) =>
        /\ outcome # "panic"
        /\ \A other \in C9_Rearrangements(args) : C9_Parsed(other) = C9_Current

(* C9, amended: trim and lowercase depend only on whether the flag occurs;  *)
(* truncate is decided by the first truncate directive, in list order, that *)
(* carries exactly one integer literal.  So a permutation, a repetition or  *)
(* an insertion of unrecognized directives that leaves that first directive *)
(* the same gives the same Config and the same failure or success.          *)
C9_ConfigDependsOnFirstTruncate ==
    C9_ArgsDone =>
        /\ has_trim = (MetaPath("trim") \in Range(args))
        /\ has_lowercase = (MetaPath("lowercase") \in Range(args))
        /\ \A other \in C9_Rearrangements(args) :
              C9_FirstIntTruncate(other) = C9_FirstIntTruncate(args)
                  => C9_Parsed(other) = C9_Current
        /\ C9_FirstIntTruncate(args) = <<>> => (truncate_value = None /\ outcome # "panic")
        /\ \A n \in 0..MaxTrunc :
              C9_FirstIntTruncate(args) = <<MetaList("truncate", <<IntLit(n)>>)>>
                  => (truncate_value = Some(n) /\ outcome # "panic")
        /\ C9_FirstIntTruncate(args) = <<MetaList("truncate", <<HugeIntLit>>)>>
              => outcome = "panic"

\* two truncate directives with different N and a flag: the first N was taken
C9_Witness ==
    /\ pc = "item"
    /\ Len(args) = 3
    /\ has_trim
    /\ \E i, j \in 1..3, n, m \in 0..MaxTrunc :
          /\ i < j
          /\ n # m
          /\ args[i] = MetaList("truncate", <<IntLit(n)>>)
          /\ args[j] = MetaList("truncate", <<IntLit(m)>>)
          /\ truncate_value = Some(n)

-----------------------------------------------------------------------------
(* C10: the alias pass compares and cuts in codepoints: it never fails,     *)
(* whatever the identifiers and N, and every alias it adds is the first N   *)
(* codepoints of an identifier that has more than N codepoints.            *)
C10_TruncationByCodepoints ==
    /\ GenerationEnded => outcome # "panic"
    /\ (pc \in {"transform", "emit", "generated", "returned"} /\ truncate_value.some) =>
          \A k \in (Len(variants) + 1)..Len(arms_vec) :
              /\ Len(arms_vec[k].variant) > truncate_value.value
              /\ arms_vec[k].pattern =
                    NormalizedName(FirstCodepoints(arms_vec[k].variant, truncate_value.value))

=============================================================================
